---- MODULE Spec2Model ----
(***************************************************************************)
(* Model of main.py: a CSV-driven UI input CLI.  A header row of tokens    *)
(* (ctrl+v_1, tab_1, click-100,200_1, ...) opens a section; every data row *)
(* under it is executed token by token by run_action.  Two hotkey          *)
(* callbacks (pause toggle, stop request) run concurrently with the        *)
(* scheduling loop of process_csv and communicate through two Events.      *)
(*                                                                         *)
(* Strings are sequences of one-character strings, so that the regular     *)
(* expressions and str methods of the source are computed, not assumed.    *)
(***************************************************************************)
EXTENDS Integers, Sequences, FiniteSets, TLC

\* ------------------------------------------------------------------------
\* Strings
\* ------------------------------------------------------------------------

LowerLetters ==
    <<"a","b","c","d","e","f","g","h","i","j","k","l","m",
      "n","o","p","q","r","s","t","u","v","w","x","y","z">>

UpperLetters ==
    <<"A","B","C","D","E","F","G","H","I","J","K","L","M",
      "N","O","P","Q","R","S","T","U","V","W","X","Y","Z">>

DigitChars == <<"0","1","2","3","4","5","6","7","8","9">>

Range(f) == { f[x] : x \in DOMAIN f }

IsLetter(c) == c \in Range(LowerLetters) \cup Range(UpperLetters)

IsDigit(c) == c \in Range(DigitChars)

\* str.strip() and \s: the ASCII whitespace characters a CSV cell can hold
IsSpace(c) == c \in {" ", "\t", "\n", "\r", "\f"}

\* str.lower() on one character
LowerChar(c) ==
    IF c \in Range(UpperLetters)
    THEN LowerLetters[CHOOSE n \in DOMAIN UpperLetters : UpperLetters[n] = c]
    ELSE c

Lower(s) == [n \in DOMAIN s |-> LowerChar(s[n])]

DigitVal(c) == (CHOOSE n \in DOMAIN DigitChars : DigitChars[n] = c) - 1

Sub(s, a, b) == SubSeq(s, a, b)

\* str.strip(): drop leading and trailing whitespace
Strip(s) ==
    LET keep == { n \in DOMAIN s : ~IsSpace(s[n]) }
    IN  IF keep = {} THEN <<>>
        ELSE LET lo == CHOOSE n \in keep : \A m \in keep : n <= m
                 hi == CHOOSE n \in keep : \A m \in keep : n >= m
             IN  Sub(s, lo, hi)

\* value of a non-empty run of decimal digits
RECURSIVE DigitsVal(_)
DigitsVal(ds) ==
    IF ds = <<>> THEN 0
    ELSE 10 * DigitsVal(Sub(ds, 1, Len(ds) - 1)) + DigitVal(ds[Len(ds)])

AllDigits(s) == s # <<>> /\ \A n \in DOMAIN s : IsDigit(s[n])

\* `needle in text` for str
Contains(text, needle) ==
    \E a \in 1..(Len(text) - Len(needle) + 1) :
        Sub(text, a, a + Len(needle) - 1) = needle

\* SelectSeq without a LAMBDA: s without its "_" characters
RECURSIVE DropUnderscores(_)
DropUnderscores(s) ==
    IF s = <<>> THEN <<>>
    ELSE IF Head(s) = "_" THEN DropUnderscores(Tail(s))
    ELSE <<Head(s)>> \o DropUnderscores(Tail(s))

\* the digit part of an int() literal: digits, single underscores between them
IsIntBody(b) ==
    /\ b # <<>>
    /\ \A n \in DOMAIN b : IsDigit(b[n]) \/ b[n] = "_"
    /\ IsDigit(b[1]) /\ IsDigit(b[Len(b)])
    /\ \A n \in 1..(Len(b) - 1) : ~(b[n] = "_" /\ b[n + 1] = "_")

\* int(val) of a stripped string succeeds: an optional sign and decimal digits
\* (ValueError otherwise)
IntOk(val) ==
    \/ IsIntBody(val)
    \/ Len(val) >= 2 /\ val[1] \in {"-", "+"} /\ IsIntBody(Tail(val))

\* int(val), for IntOk(val)
IntVal(val) ==
    IF val[1] = "-" THEN 0 - DigitsVal(DropUnderscores(Tail(val)))
    ELSE IF val[1] = "+" THEN DigitsVal(DropUnderscores(Tail(val)))
    ELSE DigitsVal(DropUnderscores(val))

\* ------------------------------------------------------------------------
\* Action names of the dispatch in run_action
\* ------------------------------------------------------------------------

A_click == <<"c","l","i","c","k">>
A_doubleclick == <<"d","o","u","b","l","e","c","l","i","c","k">>
A_rightclick == <<"r","i","g","h","t","c","l","i","c","k">>
A_clickrel == <<"c","l","i","c","k","r","e","l">>
A_wait == <<"w","a","i","t">>
A_tab == <<"t","a","b">>
A_shift_tab == <<"s","h","i","f","t","+","t","a","b">>
A_enter == <<"e","n","t","e","r">>
A_text == <<"t","e","x","t">>
A_ctrl == <<"c","t","r","l">>
A_alt == <<"a","l","t">>
A_shift == <<"s","h","i","f","t">>
A_ctrl_v == <<"c","t","r","l","+","v">>

SINGLE_KEYS ==
    { <<"e","s","c">>,
      <<"f","1">>, <<"f","2">>, <<"f","3">>, <<"f","4">>, <<"f","5">>, <<"f","6">>,
      <<"f","7">>, <<"f","8">>, <<"f","9">>, <<"f","1","0">>, <<"f","1","1">>,
      <<"f","1","2">>,
      <<"h","o","m","e">>, <<"e","n","d">>, <<"p","a","g","e","u","p">>,
      <<"p","a","g","e","d","o","w","n">>, <<"u","p">>, <<"d","o","w","n">>,
      <<"l","e","f","t">>, <<"r","i","g","h","t">>, <<"d","e","l","e","t","e">>,
      <<"b","a","c","k","s","p","a","c","e">>, <<"s","p","a","c","e">> }

\* ------------------------------------------------------------------------
\* Header grammar (HEADER_RE) and parse_header
\* ------------------------------------------------------------------------

\* A group that did not take part in the match (None).  The fixparam group is
\* [^_]+, never empty when present, and run_action only tests its truth.
NoParam == <<>>

\* [a-z0-9\+\-] under re.IGNORECASE
IsActionChar(c) == IsLetter(c) \/ IsDigit(c) \/ c \in {"+", "-"}

\* The lengths k of the `action` group for which the rest of the prefix p
\* (the text before the single "_") is empty or "-" and a non-empty fixparam.
ActionLens(p) ==
    { k \in 1..Len(p) :
        /\ \A n \in 1..k : IsActionChar(p[n])
        /\ \/ k = Len(p)
           \/ p[k + 1] = "-" /\ k + 2 <= Len(p) }

NoMatch == [ok |-> FALSE, action |-> <<>>, fixparam |-> NoParam, seq |-> <<>>]

\* HEADER_RE.match(s): the groups of the first match the backtracking engine
\* finds (the greedy `action` group is as long as a match allows).
HeaderMatch(s) ==
    LET us == { n \in DOMAIN s : s[n] = "_" }
    IN  IF Cardinality(us) # 1 THEN NoMatch
        ELSE LET u == CHOOSE n \in us : TRUE
                 p == Sub(s, 1, u - 1)
                 d == Sub(s, u + 1, Len(s))
             IN  IF ~AllDigits(d) \/ ActionLens(p) = {} THEN NoMatch
                 ELSE LET k == CHOOSE n \in ActionLens(p) :
                                  \A m \in ActionLens(p) : m <= n
                      IN  [ok       |-> TRUE,
                           action   |-> Sub(p, 1, k),
                           fixparam |-> IF k = Len(p) THEN NoParam
                                        ELSE Sub(p, k + 2, Len(p)),
                           seq      |-> d]

\* mutant: the grammar also checks the action name against the dispatch of
\* run_action, so an unknown action is a bad header token
ParseTokenKnownOnly(h) ==
    LET m == HeaderMatch(Strip(h))
        a == Lower(m.action)
    IN  [ok       |-> /\ m.ok
                      /\ \/ a \in {A_click, A_doubleclick, A_rightclick, A_clickrel,
                                    A_wait, A_tab, A_shift_tab, A_enter, A_text}
                         \/ a \in SINGLE_KEYS
                         \/ Contains(a, A_ctrl) \/ Contains(a, A_alt)
                         \/ Contains(a, A_shift),
         raw      |-> h,
         action   |-> a,
         seq      |-> DigitsVal(m.seq),
         fixparam |-> m.fixparam]

\* one iteration of the loop of parse_header: the token of header cell h
\* (ok = FALSE: the ValueError "Bad header token")
ParseToken(h) ==
    LET m == HeaderMatch(Strip(h))
    IN  [ok       |-> m.ok,
         raw      |-> h,
         action   |-> Lower(m.action),
         seq      |-> DigitsVal(m.seq),
         fixparam |-> m.fixparam]

RECURSIVE GoodTokens(_)
GoodTokens(headers) ==
    IF headers = <<>> THEN <<>>
    ELSE IF ParseToken(Head(headers)).ok
    THEN <<ParseToken(Head(headers))>> \o GoodTokens(Tail(headers))
    ELSE GoodTokens(Tail(headers))

\* mutant: a bad token is dropped (`continue`) instead of raising
parse_header_skip_bad(headers) ==
    [ok |-> TRUE, tokens |-> GoodTokens(headers)]

\* parse_header(headers): ok and the token list, or ok = FALSE when a token
\* raises ValueError
parse_header(headers) ==
    IF \E j \in DOMAIN headers : ~ParseToken(headers[j]).ok
    THEN [ok |-> FALSE, tokens |-> <<>>]
    ELSE [ok |-> TRUE, tokens |-> [j \in DOMAIN headers |-> ParseToken(headers[j])]]

\* ------------------------------------------------------------------------
\* Coords grammar (COORDS_RE) and parse_coords
\* ------------------------------------------------------------------------

\* -?\d+
IsSignedInt(s) == AllDigits(s) \/ (Len(s) >= 2 /\ s[1] = "-" /\ AllDigits(Tail(s)))

\* mutant: the pattern is compiled without re.IGNORECASE
CoordSplitsCaseSensitive(text) ==
    { n \in DOMAIN text :
        /\ text[n] \in {"x", ","}
        /\ IsSignedInt(Strip(Sub(text, 1, n - 1)))
        /\ IsSignedInt(Strip(Sub(text, n + 1, Len(text)))) }

\* The positions of a separator (x or ",", case-insensitive) that splits text
\* into \s*(-?\d+)\s* and \s*(-?\d+)\s*
CoordSplits(text) ==
    { n \in DOMAIN text :
        /\ LowerChar(text[n]) \in {"x", ","}
        /\ IsSignedInt(Strip(Sub(text, 1, n - 1)))
        /\ IsSignedInt(Strip(Sub(text, n + 1, Len(text)))) }

\* parse_coords(text): ok and the pair (x, y), or ok = FALSE when it raises
\* ValueError "Bad coords"
parse_coords(text) ==
    IF CoordSplits(text) = {} THEN [ok |-> FALSE, x |-> 0, y |-> 0]
    ELSE LET n == CHOOSE m \in CoordSplits(text) : TRUE
         IN  [ok |-> TRUE,
              x  |-> IntVal(Strip(Sub(text, 1, n - 1))),
              y  |-> IntVal(Strip(Sub(text, n + 1, Len(text))))]

\* ------------------------------------------------------------------------
\* run_action: the dispatch on the action name
\* ------------------------------------------------------------------------

\* What one call of run_action did after its control check.
\*   status  "ok" | "error" (an exception left run_action) | "skipped"
\*   kind    the branch of the dispatch that reported through info()
\*   x, y, n, clicks, button, text   what info() reported
\*   calls   the input-injection, clipboard and sleep calls made, in order
Outcome(status, kind, x, y, n, clicks, button, text, calls) ==
    [status |-> status, kind |-> kind, x |-> x, y |-> y, n |-> n,
     clicks |-> clicks, button |-> button, text |-> text, calls |-> calls]

Failed(kind) == Outcome("error", kind, 0, 0, 0, 0, "none", <<>>, <<>>)

\* `if not dry_run and action_delay > 0: time.sleep(action_delay)`
DelayCalls(dry_run, action_delay) ==
    IF ~dry_run /\ action_delay > 0 THEN <<"sleep">> ELSE <<>>

\* mutant: the branch forgets its `if not dry_run:` guard
LiveAlways(dry_run, calls) == calls

\* the calls of a branch: none in a dry run
Live(dry_run, calls) == IF dry_run THEN <<>> ELSE calls

\* branch 1: click, doubleclick, rightclick, clickrel
ClickAction(action, fixparam, val, dry_run, action_delay) ==
    LET clicks == IF action = A_doubleclick THEN 2 ELSE 1
        button == IF action = A_rightclick THEN "right" ELSE "left"
        c      == IF fixparam # NoParam THEN parse_coords(fixparam) ELSE parse_coords(val)
        kind   == IF action = A_clickrel THEN "clickrel" ELSE "click"
    IN  IF ~c.ok THEN Failed(kind)
        ELSE Outcome("ok", kind, c.x, c.y, 0, clicks, button, <<>>,
                     Live(dry_run, IF action = A_clickrel THEN <<"position", "click">>
                                   ELSE <<"click">>)
                         \o DelayCalls(dry_run, action_delay))

\* branch 2: wait
WaitAction(val, dry_run, action_delay) ==
    IF val # <<>> /\ ~IntOk(val) THEN Failed("wait")
    ELSE LET ms == IF val # <<>> THEN IntVal(val) ELSE 0
         IN  IF ~dry_run /\ ms < 0
             THEN Failed("wait") \* time.sleep raises ValueError on a negative length
             ELSE Outcome("ok", "wait", 0, 0, ms, 0, "none", <<>>,
                          Live(dry_run, <<"sleep">>) \o DelayCalls(dry_run, action_delay))

\* branches 3 and 4: tab, shift+tab, enter
RepeatAction(action, val, dry_run, action_delay) ==
    LET kind == IF action = A_tab THEN "tab"
                ELSE IF action = A_enter THEN "enter" ELSE "shift+tab"
    IN  IF val # <<>> /\ ~IntOk(val) THEN Failed(kind)
        ELSE LET n == IF val # <<>> THEN IntVal(val) ELSE 1
             IN  Outcome("ok", kind, 0, 0, n, 0, "none", <<>>,
                         Live(dry_run, IF n <= 0 THEN <<>>
                                       ELSE IF action = A_shift_tab THEN <<"hotkey">>
                                       ELSE <<"press">>)
                             \o DelayCalls(dry_run, action_delay))

\* branch 5: text, through paste_value
TextAction(val, entry_mode, dry_run, action_delay) ==
    Outcome("ok", "text", 0, 0, Len(val), 0, "none", val,
            Live(dry_run, IF entry_mode = "typing" THEN <<"typewrite">>
                          ELSE <<"clipboard", "hotkey">>)
                \o DelayCalls(dry_run, action_delay))

\* mutant: ctrl+v copies the cell also when it is empty
ComboActionAlwaysCopy(action, val, dry_run, action_delay) ==
    IF action = A_ctrl_v
    THEN Outcome("ok", "paste", 0, 0, Len(val), 0, "none", val,
                 Live(dry_run, <<"clipboard", "hotkey">>)
                     \o DelayCalls(dry_run, action_delay))
    ELSE Outcome("ok", IF Contains(action, <<"+">>) THEN "chord" ELSE "key",
                 0, 0, 0, 0, "none", <<>>,
                 Live(dry_run, IF Contains(action, <<"+">>) THEN <<"hotkey">>
                               ELSE <<"press">>)
                     \o DelayCalls(dry_run, action_delay))

\* branch 6: generic combos and single keys, with the ctrl+v special case
ComboAction(action, val, dry_run, action_delay) ==
    IF action = A_ctrl_v /\ val # <<>>
    THEN Outcome("ok", "paste", 0, 0, Len(val), 0, "none", val,
                 Live(dry_run, <<"clipboard", "hotkey">>)
                     \o DelayCalls(dry_run, action_delay))
    ELSE Outcome("ok", IF Contains(action, <<"+">>) THEN "chord" ELSE "key",
                 0, 0, 0, 0, "none", <<>>,
                 Live(dry_run, IF Contains(action, <<"+">>) THEN <<"hotkey">>
                               ELSE <<"press">>)
                     \o DelayCalls(dry_run, action_delay))

\* mutant: an unrecognized action raises
RunActionUnknownRaises(token, cell_value, entry_mode, dry_run, action_delay) ==
    LET action   == token.action
        fixparam == token.fixparam
        val      == Strip(cell_value)
    IN  IF action \in {A_click, A_doubleclick, A_rightclick, A_clickrel}
        THEN ClickAction(action, fixparam, val, dry_run, action_delay)
        ELSE IF action = A_wait
        THEN WaitAction(val, dry_run, action_delay)
        ELSE IF action \in {A_tab, A_shift_tab}
        THEN RepeatAction(action, val, dry_run, action_delay)
        ELSE IF action = A_enter
        THEN RepeatAction(action, val, dry_run, action_delay)
        ELSE IF action = A_text
        THEN TextAction(val, entry_mode, dry_run, action_delay)
        ELSE IF \/ Contains(action, A_ctrl) \/ Contains(action, A_alt)
                \/ Contains(action, A_shift) \/ action \in SINGLE_KEYS
        THEN ComboAction(action, val, dry_run, action_delay)
        ELSE Failed("unknown")

\* run_action after wait_if_paused_or_stopped() has returned
RunAction(token, cell_value, entry_mode, dry_run, action_delay) ==
    LET action   == token.action
        fixparam == token.fixparam
        val      == Strip(cell_value)
    IN  IF action \in {A_click, A_doubleclick, A_rightclick, A_clickrel}
        THEN ClickAction(action, fixparam, val, dry_run, action_delay)
        ELSE IF action = A_wait
        THEN WaitAction(val, dry_run, action_delay)
        ELSE IF action \in {A_tab, A_shift_tab}
        THEN RepeatAction(action, val, dry_run, action_delay)
        ELSE IF action = A_enter
        THEN RepeatAction(action, val, dry_run, action_delay)
        ELSE IF action = A_text
        THEN TextAction(val, entry_mode, dry_run, action_delay)
        ELSE IF \/ Contains(action, A_ctrl) \/ Contains(action, A_alt)
                \/ Contains(action, A_shift) \/ action \in SINGLE_KEYS
        THEN ComboAction(action, val, dry_run, action_delay)
        ELSE Outcome("skipped", "unknown", 0, 0, 0, 0, "none", <<>>, <<>>)

\* ------------------------------------------------------------------------
\* process_csv: the pieces of the row loop
\* ------------------------------------------------------------------------

\* mutant: the cells are compared without .strip()
is_blank_row_nostrip(r) == \A n \in DOMAIN r : r[n] = <<>>

\* is_blank_row(r)
is_blank_row(r) == \A n \in DOMAIN r : Strip(r[n]) = <<>>

\* the columns of row whose cell is kept by
\* `hdr = [c for c in row if (c or "").strip() != ""]`, left to right
RECURSIVE KeptCols(_, _)
KeptCols(row, n) ==
    IF n > Len(row) THEN <<>>
    ELSE IF Strip(row[n]) # <<>> THEN <<n>> \o KeptCols(row, n + 1)
    ELSE KeptCols(row, n + 1)

\* hdr, the list handed to parse_header
HeaderCells(row) == [m \in DOMAIN KeptCols(row, 1) |-> row[KeptCols(row, 1)[m]]]

\* `current_tokens = None`; parse_header of a non-blank row is never empty
NoTokens == <<>>

\* mutant: start_row taken as exclusive (`<=`)
BelowStartRowExclusive(line, start) == line <= (IF start > 1 THEN start ELSE 1)

\* `if i < max(1, start_row): continue`
BelowStartRow(line, start) == line < (IF start > 1 THEN start ELSE 1)

\* mutant: the limit is tested with `>`
MaxRowsReachedLate(limit, done) == limit # 0 /\ done > limit

\* `if max_rows and processed_count >= max_rows: break`
MaxRowsReached(limit, done) == limit # 0 /\ done >= limit

\* mutant: a longer row keeps its last cells
PadOrTrimKeepLast(r, n) ==
    [m \in 1..n |-> IF Len(r) > n THEN r[Len(r) - n + m]
                    ELSE IF m <= Len(r) THEN r[m] ELSE <<>>]

\* "Pad or trim to header length"
PadOrTrim(r, n) == [m \in 1..n |-> IF m <= Len(r) THEN r[m] ELSE <<>>]

\* ------------------------------------------------------------------------
\* State
\* ------------------------------------------------------------------------

VARIABLES
    rows,            \* the CSV, as list(csv.reader(f)) returns it
    dry_run,         \* arguments of process_csv
    start_row,
    max_rows,
    entry_mode,
    action_delay,
    PAUSED,          \* threading.Event: is it set
    STOP_REQUESTED,
    pc,              \* where the scheduling flow stands
    ret,             \* the caller of wait_if_paused_or_stopped: "startup" | "token"
    obsPaused,       \* what this call of wait_if_paused_or_stopped last read
    obsStop,         \*   from each flag: "unread" | "set" | "clear"
    i,               \* loop variable of process_csv: the CSV line number
    row,             \* the padded or trimmed data row being executed
    k,               \* position in zip(current_tokens, row)
    current_tokens,
    section_idx,
    processed_count,
    acts,            \* history: every run_action call that passed its control check
    handled,         \* history: how the loop treated each line it reached
    hdrCols,         \* history: the CSV column each current token was read from
    stopAt           \* history: where the flow stood at the first stop request

vars == <<rows, dry_run, start_row, max_rows, entry_mode, action_delay,
          PAUSED, STOP_REQUESTED, pc, ret, obsPaused, obsStop, i, row, k,
          current_tokens, section_idx, processed_count, acts, handled, hdrCols, stopAt>>

args == <<rows, dry_run, start_row, max_rows, entry_mode, action_delay>>
flags == <<PAUSED, STOP_REQUESTED>>
locals == <<i, row, k, current_tokens, section_idx, processed_count>>
history == <<acts, handled, hdrCols>>

Flag(b) == IF b THEN "set" ELSE "clear"

\* ------------------------------------------------------------------------
\* The hotkey callbacks (install_hotkeys)
\* ------------------------------------------------------------------------

\* main() clears the hotkeys once process_csv has returned or raised
HotkeysInstalled == pc \notin {"done", "raised"}

\* mutant: resuming also clears the stop request
toggle_pause_clears_stop ==
    /\ HotkeysInstalled
    /\ PAUSED' = ~PAUSED
    /\ STOP_REQUESTED' = (STOP_REQUESTED /\ ~PAUSED)
    /\ UNCHANGED stopAt
    /\ UNCHANGED <<args, pc, ret, obsPaused, obsStop, locals, history>>

toggle_pause ==
    /\ HotkeysInstalled
    /\ PAUSED' = ~PAUSED
    /\ UNCHANGED <<STOP_REQUESTED, stopAt>>
    /\ UNCHANGED <<args, pc, ret, obsPaused, obsStop, locals, history>>

request_stop ==
    /\ HotkeysInstalled
    /\ STOP_REQUESTED' = TRUE
    /\ stopAt' = IF STOP_REQUESTED THEN stopAt
                 ELSE [set |-> TRUE, pc |-> pc, line |-> i, k |-> k,
                       paused |-> PAUSED, nacts |-> Len(acts)]
    /\ UNCHANGED PAUSED
    /\ UNCHANGED <<args, pc, ret, obsPaused, obsStop, locals, history>>

\* ------------------------------------------------------------------------
\* wait_if_paused_or_stopped
\* ------------------------------------------------------------------------

\* entering the function: nothing read yet
EnterWait(caller) ==
    /\ pc' = "w_paused"
    /\ ret' = caller
    /\ obsPaused' = "unread"
    /\ obsStop' = "unread"

\* mutant: a token that finds the pause flag set is dropped
WaitReadPausedDrops ==
    /\ pc = "w_paused"
    /\ obsPaused' = Flag(PAUSED)
    /\ pc' = IF PAUSED THEN "w_stop" ELSE "w_check"
    /\ k' = IF PAUSED /\ ret = "token" /\ k < Len(current_tokens) THEN k + 1 ELSE k
    /\ UNCHANGED <<args, flags, ret, obsStop, i, row, current_tokens, section_idx,
                   processed_count, history, stopAt>>

\* `while PAUSED.is_set() ...`: the first operand of the loop condition
WaitReadPaused ==
    /\ pc = "w_paused"
    /\ obsPaused' = Flag(PAUSED)
    /\ pc' = IF PAUSED THEN "w_stop" ELSE "w_check"
    /\ UNCHANGED <<args, flags, ret, obsStop, locals, history, stopAt>>

\* mutant: `if` for `while`: one sleep, then on to the stop check
WaitReadStopOnce ==
    /\ pc = "w_stop"
    /\ obsStop' = Flag(STOP_REQUESTED)
    /\ pc' = "w_check"
    /\ UNCHANGED <<args, flags, ret, obsPaused, locals, history, stopAt>>

\* mutant: the loop condition is `while PAUSED.is_set()` alone
WaitReadStopNoExit ==
    /\ pc = "w_stop"
    /\ obsStop' = Flag(STOP_REQUESTED)
    /\ pc' = "w_paused"
    /\ UNCHANGED <<args, flags, ret, obsPaused, locals, history, stopAt>>

\* `... and not STOP_REQUESTED.is_set()`: the second operand; when it holds
\* the body sleeps 0.05 s and the condition is evaluated again
WaitReadStop ==
    /\ pc = "w_stop"
    /\ obsStop' = Flag(STOP_REQUESTED)
    /\ pc' = IF STOP_REQUESTED THEN "w_check" ELSE "w_paused"
    /\ UNCHANGED <<args, flags, ret, obsPaused, locals, history, stopAt>>

\* mutant: the per-token check does not raise; only the row loop tests the flag
WaitCheckStopNoRaise ==
    /\ pc = "w_check"
    /\ obsStop' = Flag(STOP_REQUESTED)
    /\ pc' = IF ret = "startup"
             THEN (IF STOP_REQUESTED THEN "raised" ELSE "open")
             ELSE "act"
    /\ UNCHANGED <<args, flags, ret, obsPaused, locals, history, stopAt>>

\* `if STOP_REQUESTED.is_set(): raise KeyboardInterrupt`.  Raised from the
\* call after the startup delay it leaves process_csv; raised from run_action
\* it is caught by `except KeyboardInterrupt: break`.
WaitCheckStop ==
    /\ pc = "w_check"
    /\ obsStop' = Flag(STOP_REQUESTED)
    /\ pc' = IF STOP_REQUESTED
             THEN (IF ret = "startup" THEN "raised" ELSE "done")
             ELSE (IF ret = "startup" THEN "open" ELSE "act")
    /\ UNCHANGED <<args, flags, ret, obsPaused, locals, history, stopAt>>

\* ------------------------------------------------------------------------
\* process_csv
\* ------------------------------------------------------------------------

\* bring_window_to_front and time.sleep(startup_delay), then the control check
Startup ==
    /\ pc = "start"
    /\ EnterWait("startup")
    /\ UNCHANGED <<args, flags, locals, history, stopAt>>

\* open the file; `if not rows: return`
OpenCsv ==
    /\ pc = "open"
    /\ pc' = IF rows = <<>> THEN "done" ELSE "loop"
    /\ UNCHANGED <<args, flags, ret, obsPaused, obsStop, locals, history, stopAt>>

Handled(kind, tokens) == [kind |-> kind, tokens |-> tokens]

\* the for loop is exhausted: print "Done."
LoopEnd ==
    /\ pc = "loop"
    /\ i = Len(rows)
    /\ pc' = "done"
    /\ UNCHANGED <<args, flags, ret, obsPaused, obsStop, locals, history, stopAt>>

\* next line, a blank row: reset the section
BlankRow ==
    /\ pc = "loop"
    /\ i < Len(rows)
    /\ is_blank_row(rows[i + 1])
    /\ i' = i + 1
    /\ current_tokens' = NoTokens
    /\ handled' = Append(handled, Handled("blank", NoTokens))
    /\ hdrCols' = <<>>
    /\ UNCHANGED <<args, flags, pc, ret, obsPaused, obsStop, row, k,
                   section_idx, processed_count, acts, stopAt>>

\* next line, no active header: try to parse it as a header
HeaderRow ==
    /\ pc = "loop"
    /\ i < Len(rows)
    /\ ~is_blank_row(rows[i + 1])
    /\ current_tokens = NoTokens
    /\ i' = i + 1
    /\ LET parsed == parse_header(HeaderCells(rows[i + 1]))
       IN  IF parsed.ok
           THEN /\ current_tokens' = parsed.tokens
                /\ section_idx' = section_idx + 1
                /\ hdrCols' = KeptCols(rows[i + 1], 1)
                /\ handled' = Append(handled, Handled("header", parsed.tokens))
           ELSE /\ current_tokens' = NoTokens
                /\ section_idx' = section_idx
                /\ hdrCols' = <<>>
                /\ handled' = Append(handled, Handled("badheader", NoTokens))
    /\ UNCHANGED <<args, flags, pc, ret, obsPaused, obsStop, row, k,
                   processed_count, acts, stopAt>>

\* next line, a data row under the current header
DataRow ==
    /\ pc = "loop"
    /\ i < Len(rows)
    /\ ~is_blank_row(rows[i + 1])
    /\ current_tokens # NoTokens
    /\ i' = i + 1
    /\ pc' = "row_stop"
    /\ UNCHANGED <<args, flags, ret, obsPaused, obsStop, row, k, current_tokens,
                   section_idx, processed_count, history, stopAt>>

\* `if STOP_REQUESTED.is_set(): break`
RowStopped ==
    /\ pc = "row_stop"
    /\ STOP_REQUESTED
    /\ pc' = "done"
    /\ handled' = Append(handled, Handled("stopped", current_tokens))
    /\ UNCHANGED <<args, flags, ret, obsPaused, obsStop, locals, acts, hdrCols, stopAt>>

\* `if i < max(1, start_row): continue`
RowBeforeStart ==
    /\ pc = "row_stop"
    /\ ~STOP_REQUESTED
    /\ BelowStartRow(i, start_row)
    /\ pc' = "loop"
    /\ handled' = Append(handled, Handled("skipped", current_tokens))
    /\ UNCHANGED <<args, flags, ret, obsPaused, obsStop, locals, acts, hdrCols, stopAt>>

\* `if max_rows and processed_count >= max_rows: break`
RowLimit ==
    /\ pc = "row_stop"
    /\ ~STOP_REQUESTED
    /\ ~BelowStartRow(i, start_row)
    /\ MaxRowsReached(max_rows, processed_count)
    /\ pc' = "done"
    /\ handled' = Append(handled, Handled("maxrows", current_tokens))
    /\ UNCHANGED <<args, flags, ret, obsPaused, obsStop, locals, acts, hdrCols, stopAt>>

\* pad or trim the row and enter run_action for the first token
RowBegin ==
    /\ pc = "row_stop"
    /\ ~STOP_REQUESTED
    /\ ~BelowStartRow(i, start_row)
    /\ ~MaxRowsReached(max_rows, processed_count)
    /\ row' = PadOrTrim(rows[i], Len(current_tokens))
    /\ k' = 1
    /\ EnterWait("token")
    /\ handled' = Append(handled, Handled("data", current_tokens))
    /\ UNCHANGED <<args, flags, i, current_tokens, section_idx, processed_count,
                   acts, hdrCols, stopAt>>

\* mutant: an exception of run_action ends the whole run
ActErrorAborts ==
    /\ pc = "act"
    /\ LET out == RunAction(current_tokens[k], row[k], entry_mode, dry_run, action_delay)
       IN  /\ acts' = Append(acts, [line |-> i, k |-> k, col |-> k, cell |-> row[k],
                                    tok |-> current_tokens[k], hdrCol |-> hdrCols[k],
                                    out |-> out, stop |-> STOP_REQUESTED])
           /\ IF out.status # "error" /\ k < Len(current_tokens)
              THEN /\ k' = k + 1
                   /\ EnterWait("token")
                   /\ UNCHANGED processed_count
              ELSE /\ processed_count' = processed_count + 1
                   /\ pc' = IF out.status = "error" THEN "done" ELSE "loop"
                   /\ UNCHANGED <<k, ret, obsPaused, obsStop>>
    /\ UNCHANGED <<args, flags, i, row, current_tokens, section_idx,
                   handled, hdrCols, stopAt>>

\* the body of run_action for token k, and what the row loop does with its
\* result: the next token, or the end of the row (after the last token, or on
\* `except Exception`), which counts the row
Act ==
    /\ pc = "act"
    /\ LET out == RunAction(current_tokens[k], row[k], entry_mode, dry_run, action_delay)
       IN  /\ acts' = Append(acts, [line |-> i, k |-> k, col |-> k, cell |-> row[k],
                                    tok |-> current_tokens[k], hdrCol |-> hdrCols[k],
                                    out |-> out, stop |-> STOP_REQUESTED])
           /\ IF out.status # "error" /\ k < Len(current_tokens)
              THEN /\ k' = k + 1
                   /\ EnterWait("token")
                   /\ UNCHANGED processed_count
              ELSE /\ processed_count' = processed_count + 1
                   /\ pc' = "loop"
                   /\ UNCHANGED <<k, ret, obsPaused, obsStop>>
    /\ UNCHANGED <<args, flags, i, row, current_tokens, section_idx,
                   handled, hdrCols, stopAt>>

Scheduler ==
    \/ Startup \/ WaitReadPaused \/ WaitReadStop \/ WaitCheckStop \/ OpenCsv
    \/ LoopEnd \/ BlankRow \/ HeaderRow \/ DataRow
    \/ RowStopped \/ RowBeforeStart \/ RowLimit \/ RowBegin \/ Act

Next == Scheduler \/ toggle_pause \/ request_stop

\* ------------------------------------------------------------------------
\* Inputs: CSV cells, rows and files, and the arguments
\* ------------------------------------------------------------------------

c_tab_1 == <<"t","a","b","_","1">>
c_enter_1 == <<"e","n","t","e","r","_","1">>
c_foo_1 == <<"f","o","o","_","1">>
c_tab == <<"t","a","b">>
c_click_x == <<"c","l","i","c","k","-","1","0","x","2","0","_","1">>
c_click_comma == <<"c","l","i","c","k","-","1","0",",","2","0","_","1">>
c_2 == <<"2">>
c_3 == <<"3">>
c_sp == <<" ">>
c_empty == <<>>
c_x == <<"x">>
c_ctrl_v_1 == <<"c","t","r","l","+","v","_","1">>
c_ctrl_a_1 == <<"c","t","r","l","+","a","_","1">>
c_esc_1 == <<"e","s","c","_","1">>
c_shift_tab_1 == <<"s","h","i","f","t","+","t","a","b","_","1">>
c_text_1 == <<"t","e","x","t","_","1">>
c_wait_1 == <<"w","a","i","t","_","1">>
c_click_1 == <<"c","l","i","c","k","_","1">>
c_clickrel_1 == <<"c","l","i","c","k","r","e","l","_","1">>
c_doubleclick_1 == <<"d","o","u","b","l","e","c","l","i","c","k","_","1">>
c_rightclick_1 == <<"r","i","g","h","t","c","l","i","c","k","_","1">>
c_hi == <<"h","i">>
c_neg1 == <<"-","1">>
c_5_6 == <<"5",",","6">>
c_pad2 == <<" ","2"," ">>

\* the longest CSV, in lines
MaxLines == 3

\* every CSV of at most MaxLines lines over the rows of rowset
CsvsOver(rowset) == UNION { [1..n -> rowset] : n \in 0..MaxLines }

\* rows for the control-flow claims: a two-token section, data, a separator
RowsCtl == { <<c_tab_1, c_enter_1>>, <<c_2, c_3>>, <<>> }

\* <<dry_run, start_row, max_rows>>
ArgsCtl == {FALSE} \X {1, 3} \X {0, 1}

\* rows for the scheduling claims: blank rows (no cell, blank cells), a
\* two-token header, data
RowsSched == { <<>>, <<c_sp, c_empty>>, <<c_tab_1, c_enter_1>>, <<c_2, c_3>> }

ArgsSched == {TRUE} \X {0, 2, 3} \X {0, 1}

\* rows for the header claims: a header with an empty cell before its token,
\* a header with one bad cell, an unknown action, data
RowsHeader ==
    { <<>>, <<c_empty, c_tab_1>>, <<c_tab_1, c_tab>>, <<c_foo_1>>, <<c_2, c_3>> }

ArgsHeader == { <<TRUE, 1, 1>>, <<FALSE, 3, 0>> }

\* rows for the fixed-click claims: fixed clicks written with "x" and with
\* ",", and a data row whose first cell is empty
RowsClick == { <<>>, <<c_click_x, c_tab_1>>, <<c_click_comma>>, <<c_empty, c_2>> }

ArgsClick == { <<TRUE, 1, 0>>, <<FALSE, 1, 1>>, <<FALSE, 3, 0>> }

\* every CSV of at most n lines over the rows of rowset
CsvsUpTo(rowset, n) == UNION { [1..m -> rowset] : m \in 0..n }

\* rows for the max-rows claims: a separator, a one-token header, data
RowsLimit == { <<>>, <<c_tab_1>>, <<c_2>> }

\* max_rows negative, zero (the default: no limit), one and two
ArgsLimit == {TRUE} \X {1, 3} \X {-1, 0, 1, 2}

\* rows for the validation-failure claim: a two-token header, a row whose
\* first cell is not an integer, one whose second cell is not, a valid row
RowsErr == { <<>>, <<c_tab_1, c_enter_1>>, <<c_x, c_2>>, <<c_2, c_x>>, <<c_2, c_3>> }

ArgsErr == { <<TRUE, 1, 0>>, <<FALSE, 1, 1>>, <<FALSE, 3, 0>> }

\* rows for the unknown-action claim: an unknown action before and after a
\* known one, and a data row
RowsUnknown == { <<>>, <<c_foo_1, c_tab_1>>, <<c_tab_1, c_foo_1>>, <<c_x, c_2>> }

ArgsUnknown == { <<TRUE, 1, 0>>, <<FALSE, 1, 1>>, <<FALSE, 3, 0>> }

\* one-token headers, one for every branch of the dispatch
HeadersDry ==
    { c_click_1, c_doubleclick_1, c_rightclick_1, c_clickrel_1, c_wait_1,
      c_tab_1, c_shift_tab_1, c_enter_1, c_text_1, c_ctrl_v_1, c_ctrl_a_1,
      c_esc_1, c_foo_1 }

\* data cells: empty, blank, text, numbers (padded, negative), coordinates
CellsDry == { c_empty, c_sp, c_hi, c_x, c_2, c_pad2, c_neg1, c_5_6 }

\* what follows the first data row: nothing, a separator, another data row
TailsDry == { <<>>, << <<>> >>, << <<c_2>> >> }

\* a one-token header, a one-cell data row, and a tail; and, as a row whose
\* only cell is blank is a blank row, a two-token header with a data row
\* whose first cell is empty or blank
CsvsDry ==
    { << <<h>>, <<c>> >> \o tl : h \in HeadersDry, c \in CellsDry, tl \in TailsDry }
    \cup { << <<h, c_esc_1>>, <<c, c_x>> >> : h \in HeadersDry, c \in {c_empty, c_sp} }

ArgsDry == { <<TRUE, 1, 0>>, <<FALSE, 1, 1>>, <<FALSE, 3, 1>> }

\* rows for the pad-or-trim claim: a two-token header, a data row with fewer
\* cells than tokens and one with more
RowsPad == { <<>>, <<c_tab_1, c_enter_1>>, <<c_2>>, <<c_2, c_3, c_2>> }

ArgsPad == { <<TRUE, 1, 0>>, <<FALSE, 1, 1>>, <<FALSE, 3, 0>> }

InitWith(csvs, argset) ==
    /\ rows \in csvs
    /\ \E a \in argset : dry_run = a[1] /\ start_row = a[2] /\ max_rows = a[3]
    /\ entry_mode = "clipboard"
    /\ action_delay = 1
    /\ PAUSED = FALSE
    /\ STOP_REQUESTED = FALSE
    /\ pc = "start"
    /\ ret = "startup"
    /\ obsPaused = "unread"
    /\ obsStop = "unread"
    /\ i = 0
    /\ row = <<>>
    /\ k = 0
    /\ current_tokens = NoTokens
    /\ section_idx = 0
    /\ processed_count = 0
    /\ acts = <<>>
    /\ handled = <<>>
    /\ hdrCols = <<>>
    /\ stopAt = [set |-> FALSE, pc |-> "start", line |-> 0, k |-> 0,
                 paused |-> FALSE, nacts |-> 0]

Init == InitWith(CsvsOver(RowsCtl), ArgsCtl)

Spec == Init /\ [][Next]_vars

InitSched == InitWith(CsvsOver(RowsSched), ArgsSched)

SpecSched == InitSched /\ [][Next]_vars

\* ENABLED <<Scheduler>>_vars as a state predicate: the worker has a next
\* step, which changes pc or i, wherever it has not returned or raised
SchedulerEnabled == pc \notin {"done", "raised"}

\* The scheduler thread keeps taking steps; nothing is assumed of the
\* hotkeys.  This is WF_vars(Scheduler) written out, with SchedulerEnabled
\* for ENABLED <<Scheduler>>_vars.
SchedulerFair == []<>(~SchedulerEnabled) \/ []<><<Scheduler>>_vars

SpecLive == Init /\ [][Next]_vars /\ SchedulerFair

InitHeader == InitWith(CsvsOver(RowsHeader), ArgsHeader)

SpecHeader == InitHeader /\ [][Next]_vars

InitClick == InitWith(CsvsOver(RowsClick), ArgsClick)

SpecClick == InitClick /\ [][Next]_vars

InitLimit == InitWith(CsvsUpTo(RowsLimit, MaxLines + 1), ArgsLimit)

SpecLimit == InitLimit /\ [][Next]_vars

InitErr == InitWith(CsvsOver(RowsErr), ArgsErr)

SpecErr == InitErr /\ [][Next]_vars

InitUnknown == InitWith(CsvsOver(RowsUnknown), ArgsUnknown)

SpecUnknown == InitUnknown /\ [][Next]_vars

InitDry == InitWith(CsvsDry, ArgsDry)

SpecDry == InitDry /\ [][Next]_vars

InitPad == InitWith(CsvsOver(RowsPad), ArgsPad)

SpecPad == InitPad /\ [][Next]_vars

\* ------------------------------------------------------------------------
\* parse_coords on its own: every short string over the characters of its
\* pattern
\* ------------------------------------------------------------------------

\* the longest coordinate string
MaxCoordLen == 4

CoordChars == { "1", "2", "-", "+", "x", "X", ",", " " }

CoordTexts == UNION { [1..m -> CoordChars] : m \in 0..MaxCoordLen }

\* the argument is held in row, the result is appended to acts
InitCoords ==
    /\ row \in { <<text>> : text \in CoordTexts }
    /\ pc = "coords"
    /\ rows = <<>>
    /\ dry_run = TRUE /\ start_row = 1 /\ max_rows = 0
    /\ entry_mode = "clipboard" /\ action_delay = 1
    /\ PAUSED = FALSE /\ STOP_REQUESTED = FALSE
    /\ ret = "startup" /\ obsPaused = "unread" /\ obsStop = "unread"
    /\ i = 0 /\ k = 0 /\ current_tokens = NoTokens
    /\ section_idx = 0 /\ processed_count = 0
    /\ acts = <<>> /\ handled = <<>> /\ hdrCols = <<>>
    /\ stopAt = [set |-> FALSE, pc |-> "start", line |-> 0, k |-> 0,
                 paused |-> FALSE, nacts |-> 0]

\* one call parse_coords(text)
CallParseCoords ==
    /\ pc = "coords"
    /\ acts' = <<[text |-> row[1], out |-> parse_coords(row[1])]>>
    /\ pc' = "parsed"
    /\ UNCHANGED <<args, flags, ret, obsPaused, obsStop, locals, handled, hdrCols, stopAt>>

NextCoords == CallParseCoords

SpecCoords == InitCoords /\ [][NextCoords]_vars

\* ------------------------------------------------------------------------
\* Control-flow claims (Spec)
\* ------------------------------------------------------------------------

\* the run_action calls that passed their control check with the stop flag set
ActsAfterStop == { n \in DOMAIN acts : acts[n].stop }

\* C1: once the stop hotkey has set STOP_REQUESTED, at most one more action is
\* performed, and only the one whose control check had already passed when
\* the flag was set (same row, same token); no later token of that row and no
\* action of a later row is executed.
C1_StopHaltsActions ==
    /\ Cardinality(ActsAfterStop) <= 1
    /\ \A n \in ActsAfterStop :
          /\ stopAt.pc = "act"
          /\ acts[n].line = stopAt.line
          /\ acts[n].k = stopAt.k

\* C1 witness: stop arrived between the check and the action of the first
\* token; that action completed, the second token of the row never ran.
C1_Witness ==
    /\ pc = "done"
    /\ \E n \in ActsAfterStop : n = Len(acts) /\ acts[n].k < Len(current_tokens)

\* C2: a stop request observed at any control check of process_csv (after the
\* startup delay, per row, per token) ends the run cleanly: the stop never
\* leaves process_csv as an unhandled KeyboardInterrupt.
C2_StopNeverEscapes == pc # "raised"

\* C3: run_action acts only after a control check that read PAUSED clear and
\* STOP_REQUESTED clear; wait_if_paused_or_stopped leaves its loop only having
\* read PAUSED clear or STOP_REQUESTED set, so nothing starts from a check that
\* observed the paused state.
C3_ActOnlyAfterClearCheck ==
    /\ pc = "act" => obsPaused = "clear" /\ obsStop = "clear"
    /\ pc = "w_check" => obsPaused = "clear" \/ (obsPaused = "set" /\ obsStop = "set")

\* C3 witness: inside run_action the check read PAUSED set and STOP_REQUESTED
\* clear, and is back at the loop condition instead of returning.
C3_Witness ==
    /\ pc = "w_paused" /\ ret = "token"
    /\ obsPaused = "set" /\ obsStop = "clear"
    /\ PAUSED /\ ~STOP_REQUESTED

\* C4: the stop flag latches: no step clears STOP_REQUESTED once set, and the
\* step that toggles PAUSED leaves STOP_REQUESTED as it was.
C4_StopLatches ==
    [][ /\ STOP_REQUESTED => STOP_REQUESTED'
        /\ PAUSED' # PAUSED => STOP_REQUESTED' = STOP_REQUESTED ]_vars

\* C4 witness: after the stop request the pause key was toggled and the
\* scheduler ran to its end, with the flag still set.
C4_Witness ==
    /\ stopAt.set /\ STOP_REQUESTED
    /\ PAUSED # stopAt.paused
    /\ pc = "done" /\ stopAt.pc # "done"

\* ------------------------------------------------------------------------
\* Scheduling claims (SpecSched)
\* ------------------------------------------------------------------------

\* a blank row, as the claims define it: every cell is empty after trimming
\* (a row with no cells included)
ClaimBlank(r) == \A n \in DOMAIN r : \A m \in DOMAIN r[n] : IsSpace(r[n][m])

\* no section was active when the loop reached line n
NoSectionBefore(n) == n = 1 \/ handled[n - 1].tokens = NoTokens

ActsOfLine(n) == { a \in DOMAIN acts : acts[a].line = n }

\* C5: a blank row always leaves the scheduler without an active section,
\* whatever the state before it and whatever start_row and max_rows are, and
\* executes no action; the next non-blank row is treated as a header.
C5_BlankRowResets ==
    /\ \A n \in DOMAIN handled :
          ClaimBlank(rows[n]) =>
             /\ handled[n].kind = "blank"
             /\ handled[n].tokens = NoTokens
             /\ ActsOfLine(n) = {}
             /\ (n < Len(handled) /\ ~ClaimBlank(rows[n + 1]))
                   => handled[n + 1].kind \in {"header", "badheader"}
    /\ (pc = "loop" /\ i >= 1 /\ ClaimBlank(rows[i])) => current_tokens = NoTokens

\* C5 witness: a blank row of blank cells, below start_row, ended an active
\* section, and the row after it was parsed as a header.
C5_Witness ==
    \E n \in DOMAIN handled :
        /\ n > 1 /\ n < Len(handled) /\ n < start_row
        /\ handled[n - 1].kind = "header"
        /\ handled[n].kind = "blank" /\ rows[n] # <<>>
        /\ handled[n + 1].kind = "header"

\* the most recent line before n that was parsed as a header (0: none)
LastHeaderBefore(n) ==
    LET hs == { m \in 1..(n - 1) : handled[m].kind = "header" }
    IN  IF hs = {} THEN 0 ELSE CHOOSE m \in hs : \A j \in hs : j <= m

\* C10: start-row filtering is by absolute 1-based line number, inclusive: no
\* row below max(1, start_row) executes an action, no row at or after
\* start_row is skipped by the filter, header and blank rows below start_row
\* still set and reset the section, and a row at or after start_row runs with
\* the tokens of the most recent header, also when that header lies below
\* start_row.
C10_StartRowFilter ==
    /\ \A a \in DOMAIN acts :
          /\ acts[a].line >= 1 /\ acts[a].line >= start_row
          /\ LET m == LastHeaderBefore(acts[a].line)
             IN  /\ m >= 1
                 /\ \A j \in (m + 1)..acts[a].line : ~ClaimBlank(rows[j])
                 /\ acts[a].tok = handled[m].tokens[acts[a].k]
    /\ \A n \in DOMAIN handled :
          /\ handled[n].kind = "skipped" => n < start_row
          /\ ClaimBlank(rows[n]) => handled[n].tokens = NoTokens
          /\ (~ClaimBlank(rows[n]) /\ NoSectionBefore(n))
                => handled[n].kind \in {"header", "badheader"}
          /\ (~ClaimBlank(rows[n]) /\ ~NoSectionBefore(n) /\ n >= start_row)
                => handled[n].kind \in {"data", "maxrows", "stopped"}

\* C10 witness: a header below start_row, a data row skipped by the filter,
\* and the next data row executed with that header's tokens.
C10_Witness ==
    \E a \in DOMAIN acts :
        LET n == acts[a].line
        IN  /\ n = start_row
            /\ handled[n - 1].kind = "skipped"
            /\ LastHeaderBefore(n) = n - 2

\* ------------------------------------------------------------------------
\* Header claims (SpecHeader)
\* ------------------------------------------------------------------------

\* the header grammar <action>[-<fixparam>]_<seq>: action of letters, digits,
\* "+" and "-", fixparam of any text without "_", seq of digits
ClaimGrammar(s) ==
    \E u \in DOMAIN s :
        /\ s[u] = "_"
        /\ AllDigits(Sub(s, u + 1, Len(s)))
        /\ \E e \in 1..(u - 1) :
              /\ \A n \in 1..e : IsActionChar(s[n])
              /\ \/ e = u - 1
                 \/ /\ s[e + 1] = "-"
                    /\ e + 2 <= u - 1
                    /\ \A n \in (e + 2)..(u - 1) : s[n] # "_"

\* row r has a cell, not empty after trimming, that is no header token
HasBadToken(r) ==
    \E c \in DOMAIN r : Strip(r[c]) # <<>> /\ ~ClaimGrammar(Strip(r[c]))

HasGoodToken(r) ==
    \E c \in DOMAIN r : Strip(r[c]) # <<>> /\ ClaimGrammar(Strip(r[c]))

\* C6: with no section active, a non-blank row with at least one cell (not
\* empty after trimming) that does not match the header grammar is rejected
\* as a whole: no section becomes active, no action is executed for the row,
\* and the next row is again attempted as a header.
C6_BadHeaderRejected ==
    \A n \in DOMAIN handled :
        (NoSectionBefore(n) /\ ~ClaimBlank(rows[n]) /\ HasBadToken(rows[n])) =>
            /\ handled[n].kind = "badheader"
            /\ handled[n].tokens = NoTokens
            /\ ActsOfLine(n) = {}
            /\ n < Len(handled) => handled[n + 1].kind \in {"blank", "header", "badheader"}
            /\ (pc = "loop" /\ i = n) => current_tokens = NoTokens

\* C6 witness: a row with one good and one bad token was rejected, and the
\* next row was parsed as a header.
C6_Witness ==
    \E n \in DOMAIN handled :
        /\ HasBadToken(rows[n]) /\ HasGoodToken(rows[n])
        /\ handled[n].kind = "badheader"
        /\ n < Len(handled) /\ handled[n + 1].kind = "header"

\* C7 as claimed: the header row "foo_1" is a format error, no section
\* becomes active, and the following non-blank row is attempted as a header.
C7_FooRejected ==
    \A n \in DOMAIN handled :
        (NoSectionBefore(n) /\ rows[n] = <<c_foo_1>>) =>
            /\ handled[n].kind = "badheader"
            /\ (n < Len(handled) /\ ~ClaimBlank(rows[n + 1]))
                  => handled[n + 1].kind \in {"header", "badheader"}

\* C7 amended: the header row "foo_1" matches the grammar and opens a section
\* with the one token foo; the following non-blank row is a data row under
\* it, whose action is reported as skipped (unknown) and has no effect.
C7_FooOpensSection ==
    \A n \in DOMAIN handled :
        (NoSectionBefore(n) /\ rows[n] = <<c_foo_1>>) =>
            /\ handled[n].kind = "header"
            /\ handled[n].tokens =
                  <<[ok |-> TRUE, raw |-> c_foo_1, action |-> <<"f","o","o">>,
                     seq |-> 1, fixparam |-> NoParam]>>
            /\ (n < Len(handled) /\ ~ClaimBlank(rows[n + 1]))
                  => handled[n + 1].kind \in {"data", "skipped", "maxrows", "stopped"}
            /\ \A a \in ActsOfLine(n + 1) :
                  /\ acts[a].tok.raw = c_foo_1
                  /\ acts[a].out.status = "skipped"
                  /\ acts[a].out.calls = <<>>

\* C7 witness: the row after the header "foo_1" ran as a data row and its
\* action was skipped as unknown.
C7_Witness ==
    \E a \in DOMAIN acts :
        /\ acts[a].tok.raw = c_foo_1
        /\ rows[acts[a].line - 1] = <<c_foo_1>>
        /\ acts[a].out.status = "skipped"

\* raw has the form click-<X>x<Y>_<n> with integers X and Y; u is the place
\* of its "_"
FixedClickAt(raw, u) ==
    /\ u \in DOMAIN raw /\ u > 7
    /\ Sub(raw, 1, 6) = <<"c","l","i","c","k","-">>
    /\ raw[u] = "_"
    /\ AllDigits(Sub(raw, u + 1, Len(raw)))
    /\ \E s \in 8..(u - 2) :
          /\ raw[s] = "x"
          /\ IsSignedInt(Sub(raw, 7, s - 1))
          /\ IsSignedInt(Sub(raw, s + 1, u - 1))

\* the token is the fixed click the claim describes, and (when it has been
\* executed) the outcome is a click at the coordinates of the header
FixedClickToken(tok) ==
    \A u \in DOMAIN tok.raw :
        FixedClickAt(tok.raw, u) =>
            /\ tok.action = A_click
            /\ tok.fixparam = Sub(tok.raw, 7, u - 1)

FixedClickDone(act) ==
    \A u \in DOMAIN act.tok.raw :
        FixedClickAt(act.tok.raw, u) =>
            /\ act.out.status = "ok"
            /\ act.out.kind = "click"
            /\ act.out.x = parse_coords(Sub(act.tok.raw, 7, u - 1)).x
            /\ act.out.y = parse_coords(Sub(act.tok.raw, 7, u - 1)).y

\* C8: a header token click-<X>x<Y>_<n> is parsed as action "click" with the
\* fixed parameter "<X>x<Y>", and run_action on it reports or performs a click
\* at (X, Y), whatever the data cell holds.
C8_FixedClick ==
    /\ \A n \in DOMAIN handled :
          \A m \in DOMAIN handled[n].tokens : FixedClickToken(handled[n].tokens[m])
    /\ \A a \in DOMAIN acts : FixedClickDone(acts[a])

\* the cell of CSV column c of row r ("" beyond its end)
CellAt(r, c) == IF c <= Len(r) THEN r[c] ELSE <<>>

\* C9: the token parsed from header column j is executed with the data cell
\* of column j, also when the header row has empty cells before its tokens.
C9_ColumnAligned ==
    \A a \in DOMAIN acts :
        /\ acts[a].col = acts[a].hdrCol
        /\ acts[a].cell = CellAt(rows[acts[a].line], acts[a].hdrCol)

\* ------------------------------------------------------------------------
\* max-rows claims (SpecLimit)
\* ------------------------------------------------------------------------

\* the lines whose execution as a data row was begun
DataLines == { n \in DOMAIN handled : handled[n].kind = "data" }

\* the lines for which run_action did something
ExecutedLines == { acts[a].line : a \in DOMAIN acts }

\* C11: processed_count counts only data rows that were executed (never a
\* header, a blank row or a row skipped by start-row); with max_rows = N > 0
\* at most N data rows execute actions, and once N rows have completed no
\* further row executes.
C11_MaxRowsCountsExecuted ==
    /\ ExecutedLines \subseteq DataLines
    /\ processed_count <= Cardinality(DataLines)
    /\ Cardinality(DataLines) <= processed_count + 1
    /\ pc \in {"loop", "row_stop"} => processed_count = Cardinality(DataLines)
    /\ max_rows > 0 =>
          /\ Cardinality(DataLines) <= max_rows
          /\ processed_count <= max_rows

\* C11 witness: a row was skipped by start-row, max_rows rows were executed,
\* and the next data row met the limit.
C11_Witness ==
    /\ max_rows > 0 /\ processed_count = max_rows
    /\ Cardinality(ExecutedLines) = max_rows
    /\ \E n \in DOMAIN handled : handled[n].kind = "skipped"
    /\ handled[Len(handled)].kind = "maxrows"

\* C12: for every max_rows <= 0 the limit never stops the scan.
C12_NonPositiveNeverLimits ==
    max_rows <= 0 => \A n \in DOMAIN handled : handled[n].kind # "maxrows"

\* ------------------------------------------------------------------------
\* Validation failures (SpecErr)
\* ------------------------------------------------------------------------

ErrorActs == { a \in DOMAIN acts : acts[a].out.status = "error" }

\* line n ran from its first token on, token by token, up to its last token
\* or up to a token that failed
RowRanFully(n) ==
    LET ks == { acts[b].k : b \in ActsOfLine(n) }
        m  == Cardinality(ks)
    IN  /\ ks = 1..m
        /\ Cardinality(ActsOfLine(n)) = m
        /\ \/ m = Len(handled[n].tokens)
           \/ \E b \in ActsOfLine(n) : acts[b].k = m /\ acts[b].out.status = "error"

\* C13: a validation failure aborts only the rest of its own row: no later
\* token of that row runs, the run goes on (it ends only at the end of the
\* file or at the max-rows limit unless a stop was requested), the tokens stay
\* as they were, and the next data row runs from its first token.
C13_ErrorAbortsRowOnly ==
    /\ \A a \in ErrorActs :
          /\ \A b \in DOMAIN acts : b > a => acts[b].line > acts[a].line
          /\ LET n == acts[a].line
             IN  /\ i > n \/ pc = "loop" \/ STOP_REQUESTED \/ pc = "done"
                 /\ (Len(handled) > n /\ handled[n + 1].kind = "data") =>
                       /\ handled[n + 1].tokens = handled[n].tokens
                       /\ (~STOP_REQUESTED /\ (i > n + 1 \/ pc \in {"loop", "done"}))
                             => RowRanFully(n + 1)
    /\ (ErrorActs # {} /\ ~STOP_REQUESTED) =>
          /\ pc # "raised"
          /\ pc = "done" => \/ i = Len(rows)
                            \/ handled[Len(handled)].kind = "maxrows"

\* C13 witness: the first token of a two-token row failed, its second token
\* never ran, and the next row ran both its tokens without failure.
C13_Witness ==
    /\ pc = "done" /\ ~STOP_REQUESTED
    /\ \E a \in ErrorActs :
          LET n == acts[a].line
          IN  /\ acts[a].k = 1 /\ Len(handled[n].tokens) = 2
              /\ ActsOfLine(n) = {a}
              /\ Len(handled) > n /\ handled[n + 1].kind = "data"
              /\ Cardinality(ActsOfLine(n + 1)) = 2
              /\ \A b \in ActsOfLine(n + 1) : acts[b].out.status = "ok"

\* ------------------------------------------------------------------------
\* Unknown actions (SpecUnknown)
\* ------------------------------------------------------------------------

\* an action name the dispatch does not know
UnknownName == <<"f", "o", "o">>

\* after act a, token k + 1 of the same row is the next thing to run: it has
\* run, or run_action has been entered for it (where only an observed stop
\* request keeps it from running)
NextTokenFollows(a) ==
    \/ /\ a < Len(acts)
       /\ acts[a + 1].line = acts[a].line
       /\ acts[a + 1].k = acts[a].k + 1
    \/ /\ a = Len(acts)
       /\ i = acts[a].line
       /\ k = acts[a].k + 1
       /\ \/ pc \in {"w_paused", "w_stop", "w_check", "act"}
          \/ pc = "done" /\ obsStop = "set"

\* C14: a token with an unrecognized action name has no input effect and
\* raises no error; it is skipped and the next token of the row runs next.
C14_UnknownSkipped ==
    \A a \in DOMAIN acts :
        acts[a].tok.action = UnknownName =>
           /\ acts[a].out.status = "skipped"
           /\ acts[a].out.calls = <<>>
           /\ acts[a].k < Len(handled[acts[a].line].tokens) => NextTokenFollows(a)

\* C14 witness: an unknown first token was skipped and the second token of
\* the row then ran.
C14_Witness ==
    \E a \in DOMAIN acts :
        /\ acts[a].tok.action = UnknownName /\ acts[a].k = 1
        /\ a < Len(acts)
        /\ acts[a + 1].line = acts[a].line /\ acts[a + 1].k = 2
        /\ acts[a + 1].out.status = "ok"

\* ------------------------------------------------------------------------
\* Dry run (SpecDry)
\* ------------------------------------------------------------------------

\* the input of a token does not parse: the coordinates of a click (the
\* fixed parameter, or else the trimmed cell), or the non-empty trimmed cell
\* of wait, tab, shift+tab and enter as a number
ClaimBadInput(tok, cell) ==
    LET val == Strip(cell)
    IN  IF tok.action \in {A_click, A_doubleclick, A_rightclick, A_clickrel}
        THEN ~parse_coords(IF tok.fixparam # NoParam THEN tok.fixparam ELSE val).ok
        ELSE IF tok.action \in {A_wait, A_tab, A_shift_tab, A_enter}
        THEN val # <<>> /\ ~IntOk(val)
        ELSE FALSE

\* run_action slept in the polling loop of its control check
SleptInPauseWait == ret = "token" /\ pc = "w_paused" /\ obsStop = "clear"

\* C15 (as stated): in a dry run run_action makes no input injection, no
\* clipboard write and no sleep at all.
C15_DryRunNeverSleeps ==
    dry_run =>
       /\ \A a \in DOMAIN acts : acts[a].out.calls = <<>>
       /\ ~SleptInPauseWait

\* C15 (amended): in a dry run run_action makes, after its control check, no
\* input injection, no clipboard write and no sleep, for every action kind
\* and cell; it validates as a live run does: an input that does not parse
\* raises the same error dry and live, a dry run raises for nothing else, and
\* what it reports is what the live run reports.
C15_DryRunNoEffectSameValidation ==
    \A a \in DOMAIN acts :
        LET dry  == RunAction(acts[a].tok, acts[a].cell, entry_mode, TRUE, action_delay)
            live == RunAction(acts[a].tok, acts[a].cell, entry_mode, FALSE, action_delay)
        IN  /\ dry_run => acts[a].out = dry /\ acts[a].out.calls = <<>>
            /\ ~dry_run => acts[a].out = live
            /\ ClaimBadInput(acts[a].tok, acts[a].cell) <=> dry.status = "error"
            /\ dry.status = "error" => live = dry
            /\ (dry.status # "error" /\ live.status # "error") =>
                  [live EXCEPT !.calls = <<>>] = dry

\* C15 witness: a dry run in which a wait token failed on a cell that is not
\* a number and then reported a 2 ms wait for the next row, without a call.
C15_Witness ==
    /\ dry_run /\ Len(acts) = 2
    /\ acts[1].tok.action = A_wait /\ acts[1].out.status = "error"
    /\ acts[2].out.status = "ok" /\ acts[2].out.n = 2 /\ acts[2].out.calls = <<>>

\* ------------------------------------------------------------------------
\* ctrl+v and the clipboard (SpecDry, live runs)
\* ------------------------------------------------------------------------

WritesClipboard(out) == \E n \in DOMAIN out.calls : out.calls[n] = "clipboard"

\* C18: in a live run a ctrl+v token with a non-empty cell (after trimming)
\* writes the trimmed cell to the clipboard and then sends the chord; with an
\* empty cell it sends the chord only; no action other than ctrl+v and text
\* writes the clipboard.
C18_CtrlVClipboard ==
    \A a \in DOMAIN acts :
        LET out == acts[a].out
            val == Strip(acts[a].cell)
        IN  ~dry_run =>
               /\ (acts[a].tok.action = A_ctrl_v /\ val # <<>>) =>
                     /\ Len(out.calls) >= 2
                     /\ SubSeq(out.calls, 1, 2) = <<"clipboard", "hotkey">>
                     /\ out.text = val
               /\ (acts[a].tok.action = A_ctrl_v /\ val = <<>>) =>
                     /\ Len(out.calls) >= 1
                     /\ out.calls[1] = "hotkey"
                     /\ ~WritesClipboard(out)
               /\ acts[a].tok.action \notin {A_ctrl_v, A_text} => ~WritesClipboard(out)

\* C18 witnesses: a live ctrl+v with the cell " 2 " copied "2", sent the
\* chord and slept the action delay; a live ctrl+v with a blank cell sent the
\* chord only, and so did the key after it.
C18_Witness ==
    /\ ~dry_run
    /\ \/ \E a \in DOMAIN acts :
             /\ acts[a].tok.action = A_ctrl_v
             /\ acts[a].cell = c_pad2
             /\ acts[a].out.text = c_2
             /\ acts[a].out.calls = <<"clipboard", "hotkey", "sleep">>
       \/ /\ Len(acts) = 2
          /\ acts[1].tok.action = A_ctrl_v
          /\ acts[1].cell = c_sp
          /\ acts[1].out.calls = <<"hotkey", "sleep">>
          /\ acts[2].out.calls = <<"press", "sleep">>

\* ------------------------------------------------------------------------
\* Tokens and cells of a row (SpecPad)
\* ------------------------------------------------------------------------

\* line n is over: the loop has left it
RowOver(n) == i > n \/ pc \in {"loop", "done"}

\* C16: the k-th run_action call of a data row gets the k-th token of the
\* active section and the k-th cell of the row ("" when the row is shorter),
\* the calls come in token order, and a row that ended without a failure and
\* without a stop request made exactly one call per token, so that cells
\* beyond the token count are never used.
C16_OneCallPerToken ==
    \A n \in DataLines :
        LET toks == handled[n].tokens
        IN  /\ \A a \in ActsOfLine(n) :
                  /\ acts[a].k \in 1..Len(toks)
                  /\ acts[a].tok = toks[acts[a].k]
                  /\ acts[a].cell = CellAt(rows[n], acts[a].k)
            /\ \A a, b \in ActsOfLine(n) : a < b => acts[a].k < acts[b].k
            /\ ( /\ RowOver(n) /\ ~STOP_REQUESTED
                 /\ \A a \in ActsOfLine(n) : acts[a].out.status # "error" )
               => /\ { acts[a].k : a \in ActsOfLine(n) } = 1..Len(toks)
                  /\ Cardinality(ActsOfLine(n)) = Len(toks)

\* C16 witness: under a two-token header a one-cell row ran its second token
\* with "" and a three-cell row ran two tokens with its first two cells.
C16_Witness ==
    /\ pc = "done" /\ ~STOP_REQUESTED /\ Len(acts) = 4
    /\ Len(rows[2]) = 1 /\ acts[2].line = 2 /\ acts[2].k = 2 /\ acts[2].cell = <<>>
    /\ Len(rows[3]) = 3 /\ acts[4].line = 3 /\ acts[4].k = 2 /\ acts[4].cell = c_3
    /\ processed_count = 2

\* ------------------------------------------------------------------------
\* parse_coords (SpecCoords)
\* ------------------------------------------------------------------------

\* an optionally signed decimal number: digits, or "-" and digits
ClaimInt(s) ==
    /\ s # <<>>
    /\ \E d \in {0, 1} :
          /\ d = 1 => s[1] = "-"
          /\ Len(s) > d
          /\ \A n \in (d + 1)..Len(s) : IsDigit(s[n])

ClaimIntVal(s) ==
    IF s[1] = "-" THEN 0 - DigitsVal(Tail(s)) ELSE DigitsVal(s)

\* "<int>x<int>" or "<int>,<int>", with nothing else in the string
ClaimPlainForm(text) ==
    \E p \in DOMAIN text :
        /\ text[p] \in {"x", ","}
        /\ ClaimInt(Sub(text, 1, p - 1))
        /\ ClaimInt(Sub(text, p + 1, Len(text)))

\* the integers text[a..b] and text[c..d] around a separator at p (x, X or
\* ","), and only whitespace elsewhere
ClaimLooseAt(text, a, b, p, c, d) ==
    /\ a <= b /\ b < p /\ p < c /\ c <= d
    /\ text[p] \in {"x", "X", ","}
    /\ ClaimInt(Sub(text, a, b))
    /\ ClaimInt(Sub(text, c, d))
    /\ \A n \in DOMAIN text : (n \notin a..b /\ n \notin c..d /\ n # p) => IsSpace(text[n])

ClaimLooseForm(text) ==
    \E a, b, p, c, d \in DOMAIN text : ClaimLooseAt(text, a, b, p, c, d)

\* the result of the one call made
CoordsCall == acts[1]

\* C17 (as stated): parse_coords succeeds exactly on "<int>x<int>" and
\* "<int>,<int>" with optionally signed decimal integers, and fails on every
\* other string.
C17_ExactlyPlainForm ==
    pc = "parsed" => (CoordsCall.out.ok <=> ClaimPlainForm(CoordsCall.text))

\* C17 (amended): parse_coords succeeds exactly on two decimal integers, each
\* with an optional "-", around one separator x, X or ",", with optional
\* whitespace around each integer; it returns the pair of their values, the
\* same pair whichever separator is written, and fails on every other string.
C17_ExactlyLooseForm ==
    pc = "parsed" =>
       LET text == CoordsCall.text
           out  == CoordsCall.out
       IN  /\ out.ok <=> ClaimLooseForm(text)
           /\ ClaimPlainForm(text) => out.ok
           /\ \A a, b, p, c, d \in DOMAIN text :
                 ClaimLooseAt(text, a, b, p, c, d) =>
                    /\ out.x = ClaimIntVal(Sub(text, a, b))
                    /\ out.y = ClaimIntVal(Sub(text, c, d))
                    /\ \A sep \in {"x", "X", ","} :
                          parse_coords([text EXCEPT ![p] = sep]) = out

\* C17 witness: "-1X2" parsed as (-1, 2).
C17_Witness ==
    /\ pc = "parsed"
    /\ CoordsCall.text = <<"-", "1", "X", "2">>
    /\ CoordsCall.out = [ok |-> TRUE, x |-> 0 - 1, y |-> 2]

\* ------------------------------------------------------------------------
\* Pause (Spec)
\* ------------------------------------------------------------------------

\* the run with no toggle and no stop, computed line by line: the actions of
\* one row from token kk on
RECURSIVE RefRow(_, _, _, _)
RefRow(line, toks, cells, kk) ==
    IF kk > Len(toks) THEN <<>>
    ELSE LET out == RunAction(toks[kk], cells[kk], entry_mode, dry_run, action_delay)
             a   == [line |-> line, k |-> kk, cell |-> cells[kk],
                     tok |-> toks[kk], out |-> out]
         IN  IF out.status = "error" THEN <<a>>
             ELSE <<a>> \o RefRow(line, toks, cells, kk + 1)

\* ... and the actions and the processed_count of lines n.. of the file
RECURSIVE RefRun(_, _, _)
RefRun(n, toks, done) ==
    IF n > Len(rows) THEN [acts |-> <<>>, count |-> done]
    ELSE IF is_blank_row(rows[n]) THEN RefRun(n + 1, NoTokens, done)
    ELSE IF toks = NoTokens
    THEN LET parsed == parse_header(HeaderCells(rows[n]))
         IN  RefRun(n + 1, IF parsed.ok THEN parsed.tokens ELSE NoTokens, done)
    ELSE IF BelowStartRow(n, start_row) THEN RefRun(n + 1, toks, done)
    ELSE IF MaxRowsReached(max_rows, done) THEN [acts |-> <<>>, count |-> done]
    ELSE LET rest == RefRun(n + 1, toks, done + 1)
         IN  [acts  |-> RefRow(n, toks, PadOrTrim(rows[n], Len(toks)), 1) \o rest.acts,
              count |-> rest.count]

\* the (row, token, cell) actions performed so far, with their outcomes
ActsDone ==
    [a \in DOMAIN acts |->
        [line |-> acts[a].line, k |-> acts[a].k, cell |-> acts[a].cell,
         tok |-> acts[a].tok, out |-> acts[a].out]]

\* C19: as long as no stop is requested, whatever the pause toggles were, the
\* actions performed are an initial part of those of the run without toggles,
\* and when the run completes they are all of them and processed_count is the
\* same: no action is lost, repeated or reordered by a pause.
C19_PauseOnlyDelays ==
    ~STOP_REQUESTED =>
       LET ref == RefRun(1, NoTokens, 0)
       IN  /\ Len(acts) <= Len(ref.acts)
           /\ ActsDone = SubSeq(ref.acts, 1, Len(acts))
           /\ pc # "raised"
           /\ pc = "done" => /\ Len(acts) = Len(ref.acts)
                             /\ processed_count = ref.count

\* C19 witness: before the second token of a row the worker slept in the
\* pause wait, then read the pause flag clear, and goes on to the token.
C19_Witness ==
    /\ pc = "w_check" /\ ret = "token" /\ k = 2
    /\ obsPaused = "clear" /\ obsStop = "clear"
    /\ ~STOP_REQUESTED /\ Len(acts) >= 1

\* ------------------------------------------------------------------------
\* Termination (SpecLive)
\* ------------------------------------------------------------------------

\* CSV exhausted, max-rows reached or stop observed
Terminal == pc \in {"done", "raised"}

\* stop was requested while the worker was in the pause wait with the pause
\* flag set
StoppedWhileBlocked ==
    stopAt.set /\ stopAt.paused /\ stopAt.pc \in {"w_paused", "w_stop"}

\* C20: if the scheduler keeps taking steps and from some point on the pause
\* flag stays cleared or stop has been requested, process_csv reaches a
\* terminal state; a stop requested while the worker is blocked in the pause
\* wait ends the run, with no action after the request.
C20_Terminates ==
    /\ (<>[](~PAUSED \/ STOP_REQUESTED)) => <>Terminal
    /\ [](StoppedWhileBlocked => Len(acts) = stopAt.nacts)
    /\ StoppedWhileBlocked ~> Terminal

\* C20 witness: the run ended after a stop requested while the worker was
\* blocked in the pause wait between two tokens, with the pause flag still set.
C20_Witness ==
    /\ Terminal /\ StoppedWhileBlocked /\ PAUSED
    /\ stopAt.k = 2 /\ Len(acts) = stopAt.nacts /\ Len(acts) >= 1

====
